---------------------------- MODULE Spec2Model ----------------------------
(***************************************************************************)
(* Thompson construction of regex-nfa: src/src/translator.rs.              *)
(*                                                                         *)
(* The translator is a family of recursive builders over the regex_syntax  *)
(* Ast.  Each builder is an operator here; the builder of the top-level    *)
(* node is also stepped through by the actions (one action per loop        *)
(* iteration), so that every merge site is a state of the model.           *)
(*                                                                         *)
(* Characters are their scalar values (integers).  The Automaton type      *)
(* (crate::automaton) is not part of the sources at hand; its operations   *)
(* follow the description of the automaton in the specification.           *)
(***************************************************************************)
EXTENDS Integers, Sequences, FiniteSets, Bags

VARIABLES ast, pc, frag, idx, site, result

vars == <<ast, pc, frag, idx, site, result>>

(***************************************************************************)
(* Bounds of the model.                                                    *)
(***************************************************************************)
\* longest input string fed to the simulated automaton
MaxLen == 3
\* largest number of children of a Concat or an Alternation node
MaxSeq == 2

(***************************************************************************)
(* Automaton (crate::automaton::Automaton).                                *)
(***************************************************************************)
\* Option<char>::None : the symbol of an epsilon transition
None == -1
\* start_state of an automaton on which set_start_state was never called
Undefined == -1

Tr(from, to, sym) == [from |-> from, to |-> to, sym |-> sym]

new == [states |-> 0, start |-> Undefined, accepting |-> {}, transitions |-> EmptyBag]

\* add_state returns the fresh id, which is the state count before the call
add_state(a) == [a EXCEPT !.states = @ + 1]

set_start_state(a, s) == [a EXCEPT !.start = s]

set_accepting(a, s, flag) ==
    [a EXCEPT !.accepting = IF flag THEN @ \cup {s} ELSE @ \ {s}]

clear_accepting(a) == [a EXCEPT !.accepting = {}]

add_transition(a, from, to, sym) ==
    [a EXCEPT !.transitions = @ (+) SetToBag({Tr(from, to, sym)})]

ShiftTr(t, m) == Tr(t.from + m, t.to + m, t.sym)

ShiftBag(b, m) ==
    LET shifted == {ShiftTr(t, m) : t \in BagToSet(b)}
    IN  [u \in shifted |-> b[ShiftTr(u, 0 - m)]]

add_states_and_transitions(a, other) ==
    [states      |-> a.states + other.states,
     start       |-> a.start,
     accepting   |-> a.accepting \cup {s + a.states : s \in other.accepting},
     transitions |-> a.transitions (+) ShiftBag(other.transitions, a.states)]

(***************************************************************************)
(* regex_syntax::ast::Ast, as far as the translator looks at it.           *)
(***************************************************************************)
Node(kind, c, cls, set, item, negated, lo, hi, op, greedy, asts) ==
    [kind |-> kind, c |-> c, cls |-> cls, set |-> set, item |-> item,
     negated |-> negated, lo |-> lo, hi |-> hi, op |-> op, greedy |-> greedy,
     asts |-> asts]

Leaf(kind) == Node(kind, 0, "", "", "", FALSE, 0, 0, "", TRUE, <<>>)

NoAst == Leaf("None")
\* what Parser::parse returned for a text that is no regular expression
ParseFailure == Leaf("ParseFailure")

Literal(c) == [Leaf("Literal") EXCEPT !.c = c]
Concat(asts) == [Leaf("Concat") EXCEPT !.asts = asts]
Alternation(asts) == [Leaf("Alternation") EXCEPT !.asts = asts]
Group(a) == [Leaf("Group") EXCEPT !.asts = <<a>>]
Repetition(op, greedy, a) ==
    [Leaf("Repetition") EXCEPT !.op = op, !.greedy = greedy, !.asts = <<a>>]
\* Class::Bracketed with kind ClassSet::Item(ClassSetItem::Range(lo-hi))
ClassRange(lo, hi, negated) ==
    [Leaf("Class") EXCEPT !.cls = "Bracketed", !.set = "Item", !.item = "Range",
                          !.lo = lo, !.hi = hi, !.negated = negated]
ClassOther(cls, set, item) ==
    [Leaf("Class") EXCEPT !.cls = cls, !.set = set, !.item = item]

(***************************************************************************)
(* TranslatorResult: Ok(automaton), Err(TranslatorError), or the abort of  *)
(* the call by a panic (a failed assert_eq!, an unsupported repetition).   *)
(***************************************************************************)
Ok(a) == [tag |-> "Ok", aut |-> a, err |-> "", node |-> NoAst]
Err(kind, node) == [tag |-> "Err", aut |-> new, err |-> kind, node |-> node]
Panic(why) == [tag |-> "Panic", aut |-> new, err |-> why, node |-> NoAst]
NoResult == [tag |-> "None", aut |-> new, err |-> "", node |-> NoAst]


(***************************************************************************)
(* The builders.                                                           *)
(***************************************************************************)
\* the frame of a composing builder: the automaton under construction, its
\* start state, and its (current) end state
Frame(a, s, e) == [aut |-> a, start |-> s, end |-> e]

\* `c as u8`: a char narrowed to its low 8 bits
AsU8(c) == c % 256

build_literal(atoms) ==
    LET a0 == new
        start_state == a0.states
        a1 == add_state(a0)
        end_state == a1.states
        a2 == add_state(a1)
        a3 == set_accepting(a2, end_state, TRUE)
        a4 == set_start_state(a3, start_state)
    IN  Ok([a4 EXCEPT !.transitions =
                 @ (+) SetToBag({Tr(start_state, end_state, atom) : atom \in atoms})])

build_class_set_range(class_set_range) ==
    LET start_atom == AsU8(class_set_range.lo)
        end_atom == AsU8(class_set_range.hi)
    IN  build_literal(start_atom .. end_atom)

\* class_bracketed.kind: the ClassSet of a bracketed class (the negation flag
\* belongs to the class, not to its set)
ClassSetOf(class_ast) ==
    [class_ast EXCEPT !.kind = "ClassSet", !.cls = "", !.negated = FALSE]

\* the ClassSetItem of a ClassSet::Item
ClassSetItemOf(class_ast) ==
    [class_ast EXCEPT !.kind = "ClassSetItem", !.cls = "", !.set = "", !.negated = FALSE]

build_class(class_ast) ==
    IF class_ast.cls = "Bracketed"
    THEN IF class_ast.set = "Item"
         THEN IF class_ast.item = "Range"
              THEN build_class_set_range(ClassSetItemOf(class_ast))
              ELSE Err("UnsupportedClassSetItem", ClassSetItemOf(class_ast))
         ELSE Err("UnsupportedClassSet", ClassSetOf(class_ast))
    ELSE Err("UnsupportedClass", class_ast)

\* build_concatenation, before its loop
concat_init ==
    LET a0 == new
        concat_start_state == a0.states
        a1 == add_state(a0)
    IN  Frame(set_start_state(a1, concat_start_state),
              concat_start_state, concat_start_state)

\* the offset taken to be the id of the last state instead of the state count
concat_append_offset_last_id(concat_automaton) == concat_automaton.states - 1

concat_append_offset(concat_automaton) == concat_automaton.states

OnlyElement(S) == CHOOSE x \in S : TRUE

\* one iteration of build_concatenation's loop, after the assert_eq!
concat_append(f, append_automaton) ==
    LET append_start_state == append_automaton.start
        append_end_state == OnlyElement(append_automaton.accepting)
        offset == concat_append_offset(f.aut)
        a1 == add_states_and_transitions(f.aut, append_automaton)
        a2 == add_transition(a1, f.end, append_start_state + offset, None)
        concat_end_state == append_end_state + offset
        a3 == clear_accepting(a2)
        a4 == set_accepting(a3, concat_end_state, TRUE)
    IN  Frame(a4, f.start, concat_end_state)

\* build_alternation, before its loop
alternation_init ==
    LET a0 == new
        alternation_automaton_start_state == a0.states
        a1 == add_state(a0)
        alternation_automaton_end_state == a1.states
        a2 == add_state(a1)
    IN  Frame(a2, alternation_automaton_start_state, alternation_automaton_end_state)

\* the offset computed once, before the loop, as build_repetition computes its own
alternation_offset_before_loop(alternation_automaton) == alternation_init.aut.states

alternation_to_alternative_offset(alternation_automaton) == alternation_automaton.states

\* the two glue edges of one alternative
alternation_glue(a, f, alt_start, alt_end, offset) ==
    add_transition(add_transition(a, f.start, alt_start + offset, None),
                   alt_end + offset, f.end, None)

\* one iteration of build_alternation's loop, after the assert_eq!
alternation_append(f, alternative_automaton) ==
    LET alternative_automaton_start_state == alternative_automaton.start
        alternative_automaton_end_state == OnlyElement(alternative_automaton.accepting)
        offset == alternation_to_alternative_offset(f.aut)
        a1 == add_states_and_transitions(f.aut, alternative_automaton)
    IN  Frame(alternation_glue(a1, f, alternative_automaton_start_state,
                               alternative_automaton_end_state, offset),
              f.start, f.end)

\* build_alternation, after its loop
alternation_finish(f) ==
    set_accepting(clear_accepting(set_start_state(f.aut, f.start)), f.end, TRUE)

\* build_repetition, up to the translation of the inner expression
repetition_init ==
    LET a0 == new
        repetition_start_state == a0.states
        a1 == add_state(a0)
        repetition_end_state == a1.states
        a2 == add_state(a1)
    IN  Frame(a2, repetition_start_state, repetition_end_state)

repetition_to_inner_offset(repetition_automaton) == repetition_automaton.states

\* the merge of the inner automaton and its two glue edges
repetition_wrap(f, inner_automaton) ==
    LET offset == repetition_to_inner_offset(f.aut)
        inner_automaton_start_state == inner_automaton.start
        inner_automaton_end_state == OnlyElement(inner_automaton.accepting)
        a1 == add_states_and_transitions(f.aut, inner_automaton)
        a2 == add_transition(a1, f.start, inner_automaton_start_state + offset, None)
        a3 == add_transition(a2, inner_automaton_end_state + offset, f.end, None)
    IN  Frame(a3, f.start, f.end)

\* the match on repetition_ast.op.kind with the arm of ZeroOrMore repeated for
\* OneOrMore
repetition_op_skipping(f, kind) ==
    CASE kind \in {"OneOrMore", "ZeroOrMore"} ->
            Ok(add_transition(add_transition(f.aut, f.start, f.end, None),
                              f.end, f.start, None))
      [] kind = "ZeroOrOne" ->
            Ok(add_transition(f.aut, f.start, f.end, None))
      [] OTHER -> Panic("is not supported yet")

\* the match on repetition_ast.op.kind
repetition_op(f, kind) ==
    CASE kind = "OneOrMore" ->
            Ok(add_transition(f.aut, f.end, f.start, None))
      [] kind = "ZeroOrMore" ->
            Ok(add_transition(add_transition(f.aut, f.start, f.end, None),
                              f.end, f.start, None))
      [] kind = "ZeroOrOne" ->
            Ok(add_transition(f.aut, f.start, f.end, None))
      [] OTHER -> Panic("is not supported yet")

repetition_finish(f, a) ==
    set_accepting(clear_accepting(set_start_state(a, f.start)), f.end, TRUE)

\* the result of a child: Err and a panic leave the builder at once; the
\* assert_eq!(accepting_states.len(), 1) aborts the call
Consumed(r) ==
    IF r.tag # "Ok" THEN r
    ELSE IF Cardinality(r.aut.accepting) # 1 THEN Panic("assertion failed")
    ELSE r

RECURSIVE build_tree(_)
RECURSIVE concat_loop(_, _, _)
RECURSIVE alternation_loop(_, _, _)

concat_loop(asts, i, f) ==
    IF i > Len(asts) THEN Ok(f.aut)
    ELSE LET r == Consumed(build_tree(asts[i]))
         IN  IF r.tag # "Ok" THEN r
             ELSE concat_loop(asts, i + 1, concat_append(f, r.aut))

build_concatenation(concat_ast) == concat_loop(concat_ast.asts, 1, concat_init)

alternation_loop(asts, i, f) ==
    IF i > Len(asts) THEN Ok(alternation_finish(f))
    ELSE LET r == Consumed(build_tree(asts[i]))
         IN  IF r.tag # "Ok" THEN r
             ELSE alternation_loop(asts, i + 1, alternation_append(f, r.aut))

build_alternation(alternation_ast) ==
    alternation_loop(alternation_ast.asts, 1, alternation_init)

\* build_repetition from the inner result on
repetition_rest(f, op, inner) ==
    LET r == Consumed(inner)
    IN  IF r.tag # "Ok" THEN r
        ELSE LET w == repetition_wrap(f, r.aut)
                 e == repetition_op(w, op)
             IN  IF e.tag # "Ok" THEN e ELSE Ok(repetition_finish(w, e.aut))

build_repetition(repetition_ast) ==
    repetition_rest(repetition_init, repetition_ast.op,
                    build_tree(repetition_ast.asts[1]))

build_tree(ast_tree) ==
    CASE ast_tree.kind = "Concat" -> build_concatenation(ast_tree)
      [] ast_tree.kind = "Repetition" -> build_repetition(ast_tree)
      [] ast_tree.kind = "Literal" -> build_literal({ast_tree.c})
      [] ast_tree.kind = "Alternation" -> build_alternation(ast_tree)
      [] ast_tree.kind = "Group" -> build_tree(ast_tree.asts[1])
      [] ast_tree.kind = "Class" -> build_class(ast_tree)
      [] OTHER -> Err("UnsupportedAst", ast_tree)

\* translate, given what the parser made of the text
translate(parsed) ==
    IF parsed = ParseFailure THEN Err("ParserError", NoAst) ELSE build_tree(parsed)

(***************************************************************************)
(* The syntax trees translated: every leaf shape, every composition of     *)
(* up to MaxSeq children over a few leaves, the compositions of those,     *)
(* and some deeper expressions.                                            *)
(***************************************************************************)
\* 'a', 'b', 'c', and two characters above U+00FF with the same low bytes
\* as 'a' and 'c'
Codes == {97, 98, 99, 353, 355}

LitA == Literal(97)
LitB == Literal(98)
LitC == Literal(99)

Literals == {Literal(x) : x \in Codes}

Ranges == {ClassRange(lo, hi, neg) : lo \in Codes, hi \in Codes, neg \in BOOLEAN}

\* the shapes build_tree and build_class turn down
OtherLeaves ==
    {Leaf("Empty"), Leaf("Dot"), Leaf("Assertion"), Leaf("Flags"),
     ClassOther("Unicode", "", ""), ClassOther("Perl", "", ""),
     ClassOther("Bracketed", "BinaryOp", ""),
     ClassOther("Bracketed", "Item", "Literal"),
     ClassOther("Bracketed", "Item", "Union")}

Ops == {"ZeroOrOne", "ZeroOrMore", "OneOrMore", "Range"}

Seqs(S) == UNION {[1 .. n -> S] : n \in 0 .. MaxSeq}

Compose(S) ==
    {Concat(s) : s \in Seqs(S)} \cup
    {Alternation(s) : s \in Seqs(S)} \cup
    {Repetition(op, g, x) : op \in Ops, g \in BOOLEAN, x \in S} \cup
    {Group(x) : x \in S}

Depth0 == {LitA, LitB, ClassRange(97, 98, FALSE), Leaf("Dot")}

Depth1 ==
    {LitA, LitB, Concat(<<>>), Concat(<<LitA, LitB>>), Alternation(<<LitA, LitB>>),
     Repetition("ZeroOrMore", TRUE, LitA), Repetition("OneOrMore", TRUE, LitA),
     Repetition("ZeroOrOne", TRUE, LitB), Repetition("Range", TRUE, LitA),
     Group(LitA), ClassOther("Perl", "", ""), ClassRange(97, 99, TRUE)}

\* (a|b)*c, (a*)*, (a?)+b, a|(b|c)*
Deeper ==
    {Concat(<<Repetition("ZeroOrMore", TRUE, Group(Alternation(<<LitA, LitB>>))), LitC>>),
     Repetition("ZeroOrMore", TRUE, Group(Repetition("ZeroOrMore", TRUE, LitA))),
     Concat(<<Repetition("OneOrMore", TRUE, Group(Repetition("ZeroOrOne", TRUE, LitA))), LitB>>),
     Alternation(<<LitA, Repetition("ZeroOrMore", TRUE, Group(Alternation(<<LitB, LitC>>)))>>)}

RECURSIVE Subtrees(_)
\* a tree and the trees below it: each is translated by a call of build_tree
Subtrees(x) == {x} \cup UNION {Subtrees(x.asts[i]) : i \in 1 .. Len(x.asts)}

InputAsts ==
    {ParseFailure} \cup Literals \cup Ranges \cup OtherLeaves \cup
    Compose(Depth0) \cup Compose(Depth1) \cup UNION {Subtrees(x) : x \in Deeper}

(***************************************************************************)
(* The translation of one expression, step by step.                        *)
(***************************************************************************)
\* a merge site: the parent before add_states_and_transitions, the child
\* merged, the parent as the call left it, the offset the builder computed,
\* and the parent after the builder's glue edges
Site(before, child, merged, offset, glued) ==
    [valid |-> TRUE, before |-> before, child |-> child, merged |-> merged,
     offset |-> offset, glued |-> glued]

NoSite ==
    [valid |-> FALSE, before |-> new, child |-> new, merged |-> new,
     offset |-> 0, glued |-> new]

Init ==
    /\ ast \in InputAsts
    /\ pc = "translate"
    /\ frag = Frame(new, 0, 0)
    /\ idx = 0
    /\ site = NoSite
    /\ result = NoResult

Return(r) ==
    /\ result' = r
    /\ pc' = "returned"
    /\ UNCHANGED <<ast, frag, idx, site>>

\* translate: the parser turned the text down
ParserError ==
    /\ pc = "translate"
    /\ ast = ParseFailure
    /\ Return(translate(ast))

BuildLiteral ==
    /\ pc = "translate"
    /\ ast.kind = "Literal"
    /\ Return(build_literal({ast.c}))

BuildClass ==
    /\ pc = "translate"
    /\ ast.kind = "Class"
    /\ Return(build_class(ast))

BuildGroup ==
    /\ pc = "translate"
    /\ ast.kind = "Group"
    /\ Return(build_tree(ast.asts[1]))

BuildUnsupported ==
    /\ pc = "translate"
    /\ ast.kind \notin {"ParseFailure", "Literal", "Class", "Group", "Concat",
                        "Alternation", "Repetition"}
    /\ Return(Err("UnsupportedAst", ast))

ConcatBegin ==
    /\ pc = "translate"
    /\ ast.kind = "Concat"
    /\ frag' = concat_init
    /\ idx' = 1
    /\ pc' = "concat"
    /\ UNCHANGED <<ast, site, result>>

ConcatIter ==
    /\ pc = "concat"
    /\ idx <= Len(ast.asts)
    /\ LET r == Consumed(build_tree(ast.asts[idx]))
       IN  IF r.tag # "Ok"
           THEN Return(r)
           ELSE /\ frag' = concat_append(frag, r.aut)
                /\ idx' = idx + 1
                /\ site' = Site(frag.aut, r.aut,
                                add_states_and_transitions(frag.aut, r.aut),
                                concat_append_offset(frag.aut), frag'.aut)
                /\ UNCHANGED <<ast, pc, result>>

ConcatReturn ==
    /\ pc = "concat"
    /\ idx > Len(ast.asts)
    /\ Return(Ok(frag.aut))

AlternationBegin ==
    /\ pc = "translate"
    /\ ast.kind = "Alternation"
    /\ frag' = alternation_init
    /\ idx' = 1
    /\ pc' = "alternation"
    /\ UNCHANGED <<ast, site, result>>

AlternationIter ==
    /\ pc = "alternation"
    /\ idx <= Len(ast.asts)
    /\ LET r == Consumed(build_tree(ast.asts[idx]))
       IN  IF r.tag # "Ok"
           THEN Return(r)
           ELSE /\ frag' = alternation_append(frag, r.aut)
                /\ idx' = idx + 1
                /\ site' = Site(frag.aut, r.aut,
                                add_states_and_transitions(frag.aut, r.aut),
                                alternation_to_alternative_offset(frag.aut), frag'.aut)
                /\ UNCHANGED <<ast, pc, result>>

AlternationReturn ==
    /\ pc = "alternation"
    /\ idx > Len(ast.asts)
    /\ Return(Ok(alternation_finish(frag)))

RepetitionBegin ==
    /\ pc = "translate"
    /\ ast.kind = "Repetition"
    /\ frag' = repetition_init
    /\ pc' = "repetition"
    /\ UNCHANGED <<ast, idx, site, result>>

RepetitionInner ==
    /\ pc = "repetition"
    /\ LET r == Consumed(build_tree(ast.asts[1]))
       IN  IF r.tag # "Ok"
           THEN Return(r)
           ELSE /\ frag' = repetition_wrap(frag, r.aut)
                /\ site' = Site(frag.aut, r.aut,
                                add_states_and_transitions(frag.aut, r.aut),
                                repetition_to_inner_offset(frag.aut), frag'.aut)
                /\ pc' = "repetition_op"
                /\ UNCHANGED <<ast, idx, result>>

RepetitionOp ==
    /\ pc = "repetition_op"
    /\ LET e == repetition_op(frag, ast.op)
       IN  Return(IF e.tag # "Ok" THEN e ELSE Ok(repetition_finish(frag, e.aut)))

Next ==
    \/ ParserError
    \/ BuildLiteral
    \/ BuildClass
    \/ BuildGroup
    \/ BuildUnsupported
    \/ ConcatBegin
    \/ ConcatIter
    \/ ConcatReturn
    \/ AlternationBegin
    \/ AlternationIter
    \/ AlternationReturn
    \/ RepetitionBegin
    \/ RepetitionInner
    \/ RepetitionOp

Spec == Init /\ [][Next]_vars

\* the steps compute what the recursive builders compute
StepsAgree == pc = "returned" => result = translate(ast)

(***************************************************************************)
(* What the claims speak of: the language of an automaton under            *)
(* epsilon-closure simulation, and the language of a regular expression.   *)
(***************************************************************************)
Alphabet == {97, 98, 99}

Strings == UNION {[1 .. n -> Alphabet] : n \in 0 .. MaxLen}

TransitionsOf(A) == BagToSet(A.transitions)

RECURSIVE Closure(_, _)
Closure(A, S) ==
    LET T == S \cup {t.to : t \in {u \in TransitionsOf(A) : u.from \in S /\ u.sym = None}}
    IN  IF T = S THEN S ELSE Closure(A, T)

Move(A, S, ch) == {t.to : t \in {u \in TransitionsOf(A) : u.from \in S /\ u.sym = ch}}

RECURSIVE Run(_, _, _, _)
Run(A, S, w, i) ==
    IF i > Len(w) THEN S ELSE Run(A, Closure(A, Move(A, S, w[i])), w, i + 1)

Accepts(A, w) == Run(A, Closure(A, {A.start}), w, 1) \cap A.accepting # {}

Prefix(w, k) == SubSeq(w, 1, k)
Suffix(w, k) == SubSeq(w, k + 1, Len(w))

RECURSIVE Matches(_, _)
RECURSIVE MatchesSeq(_, _, _)
RECURSIVE MatchesStar(_, _)

\* w is a concatenation of words matched by asts[i], asts[i+1], ...
MatchesSeq(asts, i, w) ==
    IF i > Len(asts) THEN w = <<>>
    ELSE \E k \in 0 .. Len(w) :
            Matches(asts[i], Prefix(w, k)) /\ MatchesSeq(asts, i + 1, Suffix(w, k))

\* w is a concatenation of zero or more words matched by x
MatchesStar(x, w) ==
    \/ w = <<>>
    \/ \E k \in 1 .. Len(w) : Matches(x, Prefix(w, k)) /\ MatchesStar(x, Suffix(w, k))

\* the regular expression matches the whole of w
Matches(x, w) ==
    CASE x.kind = "Literal" -> w = <<x.c>>
      [] x.kind = "Class" -> Len(w) = 1 /\ x.lo <= w[1] /\ w[1] <= x.hi
      [] x.kind = "Concat" -> MatchesSeq(x.asts, 1, w)
      [] x.kind = "Alternation" -> \E i \in 1 .. Len(x.asts) : Matches(x.asts[i], w)
      [] x.kind = "Group" -> Matches(x.asts[1], w)
      [] x.kind = "Repetition" /\ x.op = "ZeroOrMore" -> MatchesStar(x.asts[1], w)
      [] x.kind = "Repetition" /\ x.op = "OneOrMore" ->
            \/ Matches(x.asts[1], w)
            \/ \E k \in 1 .. Len(w) :
                  Matches(x.asts[1], Prefix(w, k)) /\ MatchesStar(x.asts[1], Suffix(w, k))
      [] x.kind = "Repetition" /\ x.op = "ZeroOrOne" -> w = <<>> \/ Matches(x.asts[1], w)
      [] OTHER -> FALSE

RECURSIVE Supported(_)
\* built only from literals, concatenations, alternations, greedy * + ?,
\* groups and plain single-range classes
Supported(x) ==
    CASE x.kind = "Literal" -> TRUE
      [] x.kind = "Class" ->
            x.cls = "Bracketed" /\ x.set = "Item" /\ x.item = "Range" /\ ~x.negated
      [] x.kind \in {"Concat", "Alternation", "Group"} ->
            \A i \in 1 .. Len(x.asts) : Supported(x.asts[i])
      [] x.kind = "Repetition" ->
            x.greedy /\ x.op \in {"ZeroOrOne", "ZeroOrMore", "OneOrMore"}
                     /\ Supported(x.asts[1])
      [] OTHER -> FALSE

RECURSIVE Plain(_)
\* a supported tree that has no empty Concat and whose class endpoints fit
\* in 8 bits
Plain(x) ==
    CASE x.kind = "Literal" -> TRUE
      [] x.kind = "Class" -> Supported(x) /\ x.lo < 256 /\ x.hi < 256
      [] x.kind = "Concat" ->
            Len(x.asts) > 0 /\ \A i \in 1 .. Len(x.asts) : Plain(x.asts[i])
      [] x.kind \in {"Alternation", "Group"} ->
            \A i \in 1 .. Len(x.asts) : Plain(x.asts[i])
      [] x.kind = "Repetition" -> Supported(x) /\ Plain(x.asts[1])
      [] OTHER -> FALSE

Returned == pc = "returned"

(***************************************************************************)
(* C1.  For every syntax tree built only from supported nodes, the         *)
(* automaton build_tree returns accepts a string exactly when the regular  *)
(* expression matches the whole string.                                    *)
(***************************************************************************)
LanguageCorrect ==
    (Returned /\ Supported(ast)) =>
        /\ result.tag = "Ok"
        /\ \A w \in Strings : Accepts(result.aut, w) <=> Matches(ast, w)

StatesOf(A) == 0 .. A.states - 1

WellFormed(A) ==
    /\ A.start \in StatesOf(A)
    /\ Cardinality(A.accepting) = 1
    /\ A.accepting \subseteq StatesOf(A)
    /\ \A t \in TransitionsOf(A) : t.from \in StatesOf(A) /\ t.to \in StatesOf(A)

(***************************************************************************)
(* C2.  A fragment build_tree returns has one start state and one          *)
(* accepting state, every state id it refers to is below its state count,  *)
(* and so no assert_eq!(accepting_states.len(), 1) of a builder fails.     *)
(***************************************************************************)
FragmentInvariant ==
    Returned =>
        /\ result.tag = "Ok" => WellFormed(result.aut)
        /\ ~(result.tag = "Panic" /\ result.err = "assertion failed")

UnsupportedKinds ==
    {"UnsupportedAst", "UnsupportedClass", "UnsupportedClassSet",
     "UnsupportedClassSetItem"}

\* C1 and C2 on the trees that have no empty Concat and no class endpoint
\* above U+00FF
LanguageCorrectOnPlain ==
    (Returned /\ Plain(ast)) =>
        /\ result.tag = "Ok"
        /\ WellFormed(result.aut)
        /\ \A w \in Strings : Accepts(result.aut, w) <=> Matches(ast, w)

(***************************************************************************)
(* C3.  Translating a repetition with a bounded count over a supported     *)
(* inner expression returns an Err of an Unsupported kind: the call does   *)
(* not panic and returns no automaton.                                     *)
(***************************************************************************)
BoundedRepetitionIsAnError ==
    (Returned /\ ast.kind = "Repetition" /\ ast.op = "Range" /\ Plain(ast.asts[1])) =>
        result.tag = "Err" /\ result.err \in UnsupportedKinds

(***************************************************************************)
(* C4.  Translating a lazy repetition fails: build_repetition returns an   *)
(* error, never the automaton of the greedy quantifier.                    *)
(***************************************************************************)
LazyRepetitionIsAnError ==
    (Returned /\ ast.kind = "Repetition" /\ ~ast.greedy
              /\ ast.op \in {"ZeroOrOne", "ZeroOrMore", "OneOrMore"}
              /\ Plain(ast.asts[1])) =>
        /\ result.tag = "Err"
        /\ result # build_repetition([ast EXCEPT !.greedy = TRUE])

(***************************************************************************)
(* C5.  For a class range lo-hi, build_class_set_range returns a fragment  *)
(* of 2 states whose transitions from start to end carry exactly the       *)
(* characters with lo <= code <= hi, whatever the codes of lo and hi.      *)
(***************************************************************************)
RangeCarriesItsCharacters ==
    (Returned /\ ast.kind = "Class" /\ ast.cls = "Bracketed" /\ ast.set = "Item"
              /\ ast.item = "Range" /\ ~ast.negated) =>
        /\ result.tag = "Ok"
        /\ result.aut.states = 2
        /\ result.aut.transitions =
              SetToBag({Tr(result.aut.start, OnlyElement(result.aut.accepting), x) :
                          x \in ast.lo .. ast.hi})

(***************************************************************************)
(* C6.  build_concatenation of an empty child sequence returns a fragment  *)
(* that accepts the empty string and no other string.                      *)
(***************************************************************************)
EmptyConcatAcceptsEmptyString ==
    (Returned /\ ast = Concat(<<>>)) =>
        /\ result.tag = "Ok"
        /\ \A w \in Strings : Accepts(result.aut, w) <=> w = <<>>

Refusal(kind, node) == [refused |-> TRUE, kind |-> kind, node |-> node]
NoRefusal == [refused |-> FALSE, kind |-> "", node |-> NoAst]

RECURSIVE FirstRefused(_)
RECURSIVE FirstRefusedIn(_, _)

FirstRefusedIn(asts, i) ==
    IF i > Len(asts) THEN NoRefusal
    ELSE LET r == FirstRefused(asts[i])
         IN  IF r.refused THEN r ELSE FirstRefusedIn(asts, i + 1)

FirstRefused(x) ==
    CASE x.kind = "Literal" -> NoRefusal
      [] x.kind \in {"Concat", "Alternation", "Group", "Repetition"} ->
            FirstRefusedIn(x.asts, 1)
      [] x.kind = "Class" ->
            IF x.cls # "Bracketed" THEN Refusal("UnsupportedClass", x)
            ELSE IF x.set # "Item" THEN Refusal("UnsupportedClassSet", ClassSetOf(x))
            ELSE IF x.item # "Range"
                 THEN Refusal("UnsupportedClassSetItem", ClassSetItemOf(x))
            ELSE IF x.negated THEN Refusal("", x)
            ELSE NoRefusal
      [] OTHER -> Refusal("UnsupportedAst", x)

RECURSIVE Tame(_)
\* no empty Concat, and every repetition a greedy * + ?
Tame(x) ==
    /\ x.kind = "Concat" => Len(x.asts) > 0
    /\ x.kind = "Repetition" =>
          x.greedy /\ x.op \in {"ZeroOrOne", "ZeroOrMore", "OneOrMore"}
    /\ \A i \in 1 .. Len(x.asts) : Tame(x.asts[i])

(***************************************************************************)
(* C7.  A tree with a node outside the supported set is turned down with   *)
(* the error of the layer of its first unsupported node (depth first, left *)
(* to right), which carries that node; every class other than a plain      *)
(* bracketed single range, a negated range too, is turned down.            *)
(***************************************************************************)
UnsupportedIsRefused ==
    (Returned /\ ast # ParseFailure /\ Tame(ast) /\ FirstRefused(ast).refused) =>
        LET r == FirstRefused(ast)
        IN  /\ result.tag = "Err"
            /\ result.err \in UnsupportedKinds
            /\ r.kind # "" => result.err = r.kind /\ result.node = r.node

GlueEdges == site.glued.transitions (-) site.merged.transitions

(***************************************************************************)
(* C8.  At every merge site of a builder, merging a child of n states into *)
(* a parent of m states leaves m+n states, the child's transitions and     *)
(* accepting markers shifted by m, the parent's transitions as they were;  *)
(* the offset the builder uses is m, and its glue edges end on the merged  *)
(* copies of the child's start and accepting states.                       *)
(***************************************************************************)
MergeSitesShift ==
    site.valid =>
        LET m == site.before.states
            n == site.child.states
            childStart == site.child.start + m
            childEnd == OnlyElement(site.child.accepting) + m
        IN  /\ site.merged.states = m + n
            /\ \A t \in TransitionsOf(site.child) :
                  CopiesIn(ShiftTr(t, m), site.merged.transitions) =
                      CopiesIn(t, site.child.transitions)
            /\ \A s \in site.child.accepting : s + m \in site.merged.accepting
            /\ \A t \in TransitionsOf(site.before) :
                  CopiesIn(t, site.merged.transitions) = CopiesIn(t, site.before.transitions)
            /\ BagCardinality(site.merged.transitions) =
                  BagCardinality(site.before.transitions)
                      + BagCardinality(site.child.transitions)
            /\ site.offset = m
            /\ childStart \in m .. m + n - 1
            /\ childEnd \in m .. m + n - 1
            /\ \A t \in BagToSet(GlueEdges) :
                  /\ t.sym = None
                  /\ \/ t.from < m /\ t.to = childStart
                     \/ t.from = childEnd /\ t.to < m
            /\ \E t \in BagToSet(GlueEdges) : t.to = childStart
            /\ ast.kind \in {"Alternation", "Repetition"} =>
                  \E t \in BagToSet(GlueEdges) : t.from = childEnd

\* a second child is being merged: the parent holds states and transitions
MergeSiteReached ==
    /\ site.valid
    /\ site.before.states > 2
    /\ BagCardinality(site.before.transitions) > 0
    /\ BagCardinality(site.child.transitions) > 1

Edges(S) == SetToBag({Tr(e[1], e[2], None) : e \in S})

\* the repetition automaton made of the inner fragment shifted behind S and E
\* and of the given edges
Wrapped(inner, edges) ==
    [states      |-> inner.states + 2,
     start       |-> 0,
     accepting   |-> {1},
     transitions |-> ShiftBag(inner.transitions, 2) (+) Edges(edges)]

RepetitionCase ==
    /\ Returned
    /\ ast.kind = "Repetition"
    /\ result.tag = "Ok"

(***************************************************************************)
(* C9, as stated.  build_repetition wraps the merged inner fragment in two *)
(* fresh states S and E, with S the start and E the sole accepting state,  *)
(* and adds these epsilon edges and no others: S->innerStart, innerEnd->E, *)
(* and for * S->E and innerEnd->S, for + innerEnd->S, for ? S->E.          *)
(***************************************************************************)
RepetitionEdgesFromInnerEnd ==
    RepetitionCase =>
        LET inner == build_tree(ast.asts[1]).aut
            S == 0
            E == 1
            innerStart == inner.start + 2
            innerEnd == OnlyElement(inner.accepting) + 2
            both == {<<S, innerStart>>, <<innerEnd, E>>}
        IN  result.aut = Wrapped(inner,
                CASE ast.op = "ZeroOrMore" -> both \cup {<<S, E>>, <<innerEnd, S>>}
                  [] ast.op = "OneOrMore" -> both \cup {<<innerEnd, S>>}
                  [] ast.op = "ZeroOrOne" -> both \cup {<<S, E>>})

(***************************************************************************)
(* C9, amended.  The same, with the repeat edge of * and + leaving E, not  *)
(* innerEnd: S->innerStart, innerEnd->E, and for * S->E and E->S, for +    *)
(* E->S, for ? S->E.                                                       *)
(***************************************************************************)
RepetitionEdgesFromEnd ==
    RepetitionCase =>
        LET inner == build_tree(ast.asts[1]).aut
            S == 0
            E == 1
            innerStart == inner.start + 2
            innerEnd == OnlyElement(inner.accepting) + 2
            both == {<<S, innerStart>>, <<innerEnd, E>>}
        IN  result.aut = Wrapped(inner,
                CASE ast.op = "ZeroOrMore" -> both \cup {<<S, E>>, <<E, S>>}
                  [] ast.op = "OneOrMore" -> both \cup {<<E, S>>}
                  [] ast.op = "ZeroOrOne" -> both \cup {<<S, E>>})

\* (a|b)+ has been built
RepetitionBuilt ==
    /\ RepetitionCase
    /\ ast = Repetition("OneOrMore", TRUE, Alternation(<<LitA, LitB>>))

Orders(n) == {f \in [1 .. n -> 1 .. n] : \A i, j \in 1 .. n : f[i] = f[j] => i = j}

RECURSIVE AlternativesFrom(_, _, _)
\* the alternatives from the i-th on, each shifted behind those before it and
\* glued to S = 0 and E = 1
AlternativesFrom(asts, i, offset) ==
    IF i > Len(asts) THEN EmptyBag
    ELSE LET alt == build_tree(asts[i]).aut
         IN  ShiftBag(alt.transitions, offset)
                 (+) Edges({<<0, alt.start + offset>>,
                            <<OnlyElement(alt.accepting) + offset, 1>>})
                 (+) AlternativesFrom(asts, i + 1, offset + alt.states)

RECURSIVE StatesFrom(_, _)
StatesFrom(asts, i) ==
    IF i > Len(asts) THEN 0 ELSE build_tree(asts[i]).aut.states + StatesFrom(asts, i + 1)

AlternationCase ==
    /\ Returned
    /\ ast.kind = "Alternation"
    /\ result.tag = "Ok"

(***************************************************************************)
(* C10.  build_alternation puts two fresh states S and E around the        *)
(* merged alternatives, with S -eps-> altStart and altEnd -eps-> E for     *)
(* each, S the start and E the sole accepting state; the alternatives in   *)
(* any other order give an automaton that accepts the same strings.        *)
(***************************************************************************)
AlternationCommutes ==
    AlternationCase =>
        /\ result.aut.start = 0
        /\ result.aut.accepting = {1}
        /\ result.aut.states = 2 + StatesFrom(ast.asts, 1)
        /\ result.aut.transitions = AlternativesFrom(ast.asts, 1, 2)
        /\ \A f \in Orders(Len(ast.asts)) :
              LET other == build_alternation(
                               Alternation([i \in 1 .. Len(ast.asts) |-> ast.asts[f[i]]]))
              IN  /\ other.tag = "Ok"
                  /\ other.aut.states = result.aut.states
                  /\ \A w \in Strings : Accepts(result.aut, w) <=> Accepts(other.aut, w)

\* a|b* has been built, which accepts other strings than its alternatives do
AlternationBuilt ==
    /\ AlternationCase
    /\ ast = Alternation(<<LitA, Repetition("ZeroOrMore", TRUE, LitA)>>)
    /\ Accepts(result.aut, <<97, 97>>)
    /\ ~Accepts(result.aut, <<98>>)

=============================================================================
